---- MODULE Spec2Model ----
(***************************************************************************)
(* TukangKripto: the decision engine of tukang_kripto/technical_analysis.py *)
(* (getAction, stop_loss, get_last_buy_price), the transaction log of      *)
(* tukang_kripto/utils.py, and the polling bot of main.py (executeJob,     *)
(* runApp on a sched.scheduler).                                           *)
(*                                                                         *)
(* Prices are whole numbers (rupiah) and the arithmetic of stop_loss is    *)
(* exact rational arithmetic; the float computation of the source agrees   *)
(* with it on the whole bounded domain used here.                          *)
(***************************************************************************)
EXTENDS Integers, Sequences, FiniteSets, TLC

VARIABLES
    csv,        \* transaction_<coin>.csv: whether the file exists, and its rows after the header
    decision,   \* the last call of technical_analysis.getAction: arguments and result
    pc,         \* main.py: position of the process ("runApp", "s.run", "crashed")
    next,       \* main.py: index of the next direct executeJob call of runApp
    state,      \* main.py: the AppState objects state, state2, ...
    queue,      \* main.py: s.queue, the pending events of the scheduler
    cycle,      \* main.py: the last executeJob call, its outcome and the state before it
    emitted,    \* main.py: per AppState, the actions printed so far, oldest first
    ta,         \* a TechnicalAnalysis object: whether it was constructed, and its self.df
    op,         \* the last call made on the TechnicalAnalysis object
    signal,     \* the evaluation of the last row: getInterval, then getAction
    orders,     \* indodax.py: the orders the exchange has received, oldest first
    trade,      \* indodax.py: the last call of sell_coin or buy_coin, its inputs and result
    chart,      \* a TechnicalAnalysis or Chartis object: its candles and self.levels
    scan        \* the last call of get_support_resistance_levels on that object

vars == <<csv, decision, pc, next, state, queue, cycle, emitted, ta, op, signal,
          orders, trade, chart, scan>>

(***************************************************************************)
(* Bounds                                                                  *)
(***************************************************************************)
MaxPrice == 5
MaxClose == 2
MaxRows == 2
NumInstruments == 3
MaxIterations == 3
\* the longest of the short candle series, and the longest tail after twenty
\* flat candles
MaxShort == 6
MaxTail == 2
\* the largest free coin balance the exchange reports
MaxCoin == 2
\* the longest candle series scanned for support and resistance levels
MaxBars == 7

Prices == 0..MaxPrice
\* the close prices of the candles the bot of main.py fetches
ClosePrices == 0..MaxClose
\* percentages a config.json may carry in "maximum_loss_percentage"
LossRates == {0, 10, 25, 50}
Actions == {"BUY", "SELL", "WAIT"}
LastActions == {"", "WAIT", "BUY", "SELL"}

\* Python's None, where the source returns it instead of a price
None == -1

(***************************************************************************)
(* tukang_kripto/utils.py: the transaction log                             *)
(***************************************************************************)
\* one written row: date, coin_name, type, coin_amount, price, amount
\* (only the fields the readers use are kept)
\* the price of a row is the price of an order, above 0
CsvRows == [type : {"buy", "sell"}, price : Prices \ {0}]

\* dict_data=None, the default of create_csv_transaction
NoRow == [type |-> "", price |-> None]

\* create_csv_transaction: creates the file with its header when it does not
\* exist, then appends the row `if dict_data`
create_csv_transaction(file, dict_data) ==
    IF dict_data = NoRow
    THEN [exists |-> TRUE, rows |-> file.rows]
    ELSE IF ~file.exists
    THEN [exists |-> TRUE, rows |-> <<dict_data>>]
    ELSE [exists |-> TRUE, rows |-> Append(file.rows, dict_data)]

RECURSIVE filter_rows(_, _)
filter_rows(rows, transaction_type) ==
    IF rows = <<>> THEN <<>>
    ELSE IF Head(rows).type = transaction_type
         THEN <<Head(rows)>> \o filter_rows(Tail(rows), transaction_type)
         ELSE filter_rows(Tail(rows), transaction_type)

\* get_latest_csv_transaction returning the first matching row
get_latest_csv_transaction_first(file, transaction_type) ==
    IF ~file.exists
    THEN [raised |-> TRUE, row |-> <<>>]
    ELSE LET transactions == filter_rows(file.rows, transaction_type)
         IN  IF Len(transactions) > 0
             THEN [raised |-> FALSE, row |-> <<transactions[1]>>]
             ELSE [raised |-> FALSE, row |-> <<>>]

\* get_latest_csv_transaction(coin, type): open() raises when the file does
\* not exist; the header row never matches a type; the result is the last
\* matching row, or the empty list
get_latest_csv_transaction(file, transaction_type) ==
    IF ~file.exists
    THEN [raised |-> TRUE, row |-> <<>>]
    ELSE LET transactions == filter_rows(file.rows, transaction_type)
         IN  IF Len(transactions) > 0
             THEN [raised |-> FALSE, row |-> <<transactions[Len(transactions)]>>]
             ELSE [raised |-> FALSE, row |-> <<>>]

(***************************************************************************)
(* tukang_kripto/technical_analysis.py: stop-loss and decision             *)
(***************************************************************************)
\* get_last_buy_price: the price field of the latest buy row, None without one
get_last_buy_price(file) ==
    LET last_buy == get_latest_csv_transaction(file, "buy")
    IN  IF last_buy.raised THEN [raised |-> TRUE, price |-> None]
        ELSE IF last_buy.row # <<>>
             THEN [raised |-> FALSE, price |-> last_buy.row[1].price]
             ELSE [raised |-> FALSE, price |-> None]

\* Python 3 round(num/den) for den > 0: nearest integer, ties to even
PyRoundFloor(num, den) == num \div den

PyRound(num, den) ==
    LET q == num \div den
        r == num % den
    IN  IF 2 * r < den THEN q
        ELSE IF 2 * r > den THEN q + 1
        ELSE IF q % 2 = 0 THEN q ELSE q + 1

\* stop_loss(state): s is [market_price, loss_rate]; the result tells whether
\* the call raised, the returned boolean and how often the log was read.
\* max_loss is assigned only under `if last_price:`, so without a last buy
\* price (None, or 0.0) the logger.warning after it, which formats max_loss,
\* raises UnboundLocalError
stop_loss_and(s, file) ==
    IF s.loss_rate = 0 /\ s.market_price = 0
    THEN [raised |-> FALSE, value |-> FALSE, reads |-> 0]
    ELSE LET last == get_last_buy_price(file)
             max_loss == PyRound(last.price * (100 - s.loss_rate), 100)
         IN  IF last.raised THEN [raised |-> TRUE, value |-> FALSE, reads |-> 1]
             ELSE IF last.price # None /\ last.price # 0
                  THEN [raised |-> FALSE, value |-> s.market_price <= max_loss, reads |-> 1]
                  ELSE [raised |-> TRUE, value |-> FALSE, reads |-> 1]

stop_loss(s, file) ==
    IF s.loss_rate = 0 \/ s.market_price = 0
    THEN [raised |-> FALSE, value |-> FALSE, reads |-> 0]
    ELSE LET last == get_last_buy_price(file)
             max_loss == PyRound(last.price * (100 - s.loss_rate), 100)
         IN  IF last.raised THEN [raised |-> TRUE, value |-> FALSE, reads |-> 1]
             ELSE IF last.price # None /\ last.price # 0
                  THEN [raised |-> FALSE, value |-> s.market_price <= max_loss, reads |-> 1]
                  ELSE [raised |-> TRUE, value |-> FALSE, reads |-> 1]

\* the rows getAction can be handed: the two flags exclude each other, as
\* ema5 > ema20 and ema5 < ema20 do
LastRows == {r \in [golden_cross_ema : BOOLEAN, death_cross_ema : BOOLEAN] :
                ~(r.golden_cross_ema /\ r.death_cross_ema)}

\* getAction with the buy check ahead of the stop-loss check
getAction_buy_first(df_last, last_action, s, file) ==
    LET sl == stop_loss(s, file)
    IN  IF sl.raised THEN "raise"
        ELSE IF df_last.golden_cross_ema /\ last_action # "BUY" THEN "BUY"
        ELSE IF sl.value THEN "SELL"
        ELSE IF df_last.death_cross_ema /\ last_action \notin {"", "SELL"} THEN "SELL"
        ELSE "WAIT"

\* getAction without the last_action guard of the buy check
getAction_rebuy(df_last, last_action, s, file) ==
    LET sl == stop_loss(s, file)
    IN  IF sl.raised THEN "raise"
        ELSE IF sl.value THEN "SELL"
        ELSE IF df_last.golden_cross_ema THEN "BUY"
        ELSE IF df_last.death_cross_ema /\ last_action \notin {"", "SELL"} THEN "SELL"
        ELSE "WAIT"

\* getAction whose sell check only excludes last_action SELL
getAction_sell_unheld(df_last, last_action, s, file) ==
    LET sl == stop_loss(s, file)
    IN  IF sl.raised THEN "raise"
        ELSE IF sl.value THEN "SELL"
        ELSE IF df_last.golden_cross_ema /\ last_action # "BUY" THEN "BUY"
        ELSE IF df_last.death_cross_ema /\ last_action # "SELL" THEN "SELL"
        ELSE "WAIT"

\* getAction(df_last, last_action, state): stop-loss, then buy, then sell
getAction(df_last, last_action, s, file) ==
    LET sl == stop_loss(s, file)
    IN  IF sl.raised THEN "raise"
        ELSE IF sl.value THEN "SELL"
        ELSE IF df_last.golden_cross_ema /\ last_action # "BUY" THEN "BUY"
        ELSE IF df_last.death_cross_ema /\ last_action \notin {"", "SELL"} THEN "SELL"
        ELSE "WAIT"

NoDecision ==
    [called |-> FALSE, golden_cross_ema |-> FALSE, death_cross_ema |-> FALSE,
     last_action |-> "", market_price |-> 0, loss_rate |-> 0,
     file |-> [exists |-> FALSE, rows |-> <<>>],
     stop |-> [raised |-> FALSE, value |-> FALSE, reads |-> 0], action |-> "WAIT"]

(***************************************************************************)
(* The decision engine driven with every argument it can be called with    *)
(***************************************************************************)
\* create_csv_transaction is called: with the row of a filled trade, or
\* without a row
LogTransaction ==
    /\ Len(csv.rows) < MaxRows
    /\ \E dict_data \in CsvRows \cup {NoRow} :
          csv' = create_csv_transaction(csv, dict_data)
    /\ UNCHANGED <<decision, pc, next, state, queue, cycle, emitted, ta, op, signal, orders, trade, chart, scan>>

\* one call getAction(now, app, price, df, df_last, last_action, debug, state);
\* decision keeps its arguments, the log as the call found it, and its results
Decide ==
    /\ ~decision.called
    /\ \E df_last \in LastRows, last_action \in LastActions,
          market_price \in Prices, loss_rate \in LossRates :
          LET s == [market_price |-> market_price, loss_rate |-> loss_rate]
          IN  decision' = [called |-> TRUE,
                           golden_cross_ema |-> df_last.golden_cross_ema,
                           death_cross_ema |-> df_last.death_cross_ema,
                           last_action |-> last_action,
                           market_price |-> market_price,
                           loss_rate |-> loss_rate,
                           file |-> csv,
                           stop |-> stop_loss(s, csv),
                           action |-> getAction(df_last, last_action, s, csv)]
    /\ UNCHANGED <<csv, pc, next, state, queue, cycle, emitted, ta, op, signal, orders, trade, chart, scan>>

(***************************************************************************)
(* main.py: the polling bot                                                *)
(***************************************************************************)
\* the markets and polling intervals of the executeJob calls of runApp
Markets == <<"MATIC-USD", "1INCH-USD", "BCH-USD", "DASH-USD",
             "LTC-USD", "ETH-USDT", "BTC-USDT", "ETC-USD">>
PoolTimes == <<900, 901, 902, 903, 904, 905, 906, 907>>
\* the defaults of executeJob's parameters market and pool_time
DefaultJobMarket == "BTC-USDT"
DefaultPoolTime == 900

Instruments == 1..NumInstruments

\* AppState() of main.py, the fields executeJob reads or writes
AppState ==
    [action |-> "WAIT", iterations |-> 0, last_action |-> "",
     last_buy_price |-> 0, last_buy_high |-> 0]

\* what app.getHistoricalData(market, 900) can do: raise (no connection, no
\* JSON), or return a frame with the eight columns in order; of a frame the
\* model keeps the number of rows, whether close is int64/float64, and the
\* close and the EMA12/EMA26 crossover flags addAll derives for its last row
RowCounts == {0, 20, 49, 50}

HistoricalData ==
    {[raised |-> TRUE, rows |-> 0, close_numeric |-> FALSE, close |-> 0,
      ema12gtema26co |-> FALSE, ema12ltema26co |-> FALSE]}
    \cup
    {d \in [raised : {FALSE}, rows : RowCounts, close_numeric : BOOLEAN,
            close : ClosePrices, ema12gtema26co : BOOLEAN, ema12ltema26co : BOOLEAN] :
        /\ ~(d.ema12gtema26co /\ d.ema12ltema26co)
        /\ (d.rows = 0 => ~d.close_numeric)}

\* TechnicalAnalysis.__init__: getHistoricalData has put the columns in
\* order, so only the dtype check of close can raise
TechnicalAnalysis_init_raises(data) == ~data.close_numeric

\* the periods addAll asks for, in order: addSMA(20), addSMA(50), addEMA(12),
\* addEMA(26), addSMA(5) of addGoldenCross, addEMA(12), addEMA(26) of
\* addEMABuySignals
AddAllPeriods == <<20, 50, 12, 26, 5, 12, 26>>

\* addSMA / addEMA raise on a period outside [5, 200] or a frame shorter than it
addMA_raises(data, period) ==
    period < 5 \/ period > 200 \/ data.rows < period

addAll_raises(data) ==
    \E k \in 1..Len(AddAllPeriods) : addMA_raises(data, AddAllPeriods[k])

\* getInterval: the frame itself when empty, else its last row
getInterval(data) ==
    IF data.rows = 0 THEN <<>>
    ELSE <<[close |-> data.close,
            ema12gtema26co |-> data.ema12gtema26co,
            ema12ltema26co |-> data.ema12ltema26co]>>

\* getAction of main.py
main_getAction(df_last, last_action) ==
    IF df_last[1].ema12gtema26co /\ last_action # "BUY" THEN "BUY"
    ELSE IF df_last[1].ema12ltema26co /\ last_action \notin {"", "SELL"} THEN "SELL"
    ELSE "WAIT"

\* list(map(s.cancel, s.queue)): every pending event is removed
cancel_all(q) == <<>>

\* s.enter(pool_time, 1, executeJob, (sc, app, state)): the event carries the
\* AppState only, so its call runs with the default market and pool_time.
\* The queue is kept in due order; the new event is due last
s_enter(q, pool_time, i) ==
    Append(q, [delay |-> pool_time, state |-> i,
               market |-> DefaultJobMarket, pool_time |-> DefaultPoolTime])

\* executeJob that stores the action of the last row before the frame is
\* validated
executeJob_decide_first(st, i, pool_time, data, q) ==
    LET st1 == [st EXCEPT !.iterations = @ + 1]
        df_last == getInterval(data)
        st2 == IF ~data.raised /\ Len(df_last) > 0
               THEN [st1 EXCEPT !.action = main_getAction(df_last, st1.last_action)]
               ELSE st1
    IN  IF data.raised \/ TechnicalAnalysis_init_raises(data) \/ addAll_raises(data)
        THEN [outcome |-> "raised", state |-> st2, queue |-> q,
              action |-> "", price |-> 0]
        ELSE IF Len(df_last) > 0
             THEN LET price == df_last[1].close
                      action == st2.action
                      st3 == IF action = "BUY"
                             THEN [st2 EXCEPT !.last_buy_price = price,
                                              !.last_buy_high = price]
                             ELSE st2
                  IN  [outcome |-> "done", state |-> st3,
                       queue |-> s_enter(cancel_all(q), pool_time, i),
                       action |-> action, price |-> price]
             ELSE [outcome |-> "skipped", state |-> st1, queue |-> q,
                   action |-> "", price |-> 0]

\* the body of executeJob(sc, app, state, market=..., pool_time=...) on the
\* AppState st with the scheduler queue q and the data the fetch delivers
executeJob(st, i, pool_time, data, q) ==
    LET st1 == [st EXCEPT !.iterations = @ + 1]
    IN  IF data.raised \/ TechnicalAnalysis_init_raises(data) \/ addAll_raises(data)
        THEN [outcome |-> "raised", state |-> st1, queue |-> q,
              action |-> "", price |-> 0]
        ELSE LET df_last == getInterval(data)
             IN  IF Len(df_last) > 0
                 THEN LET price == df_last[1].close
                          action == main_getAction(df_last, st1.last_action)
                          st2 == [st1 EXCEPT !.action = action]
                          st3 == IF action = "BUY"
                                 THEN [st2 EXCEPT !.last_buy_price = price,
                                                  !.last_buy_high = price]
                                 ELSE st2
                      IN  [outcome |-> "done", state |-> st3,
                           queue |-> s_enter(cancel_all(q), pool_time, i),
                           action |-> action, price |-> price]
                 ELSE [outcome |-> "skipped", state |-> st1, queue |-> q,
                       action |-> "", price |-> 0]

\* the effect of one executeJob call on the variables; an exception leaves
\* executeJob, s.run and runApp (only KeyboardInterrupt is caught) and ends
\* the process
Run(i, market, pool_time, q, pcAfter) ==
    /\ state[i].iterations < MaxIterations
    /\ \E data \in HistoricalData :
          LET r == executeJob(state[i], i, pool_time, data, q)
          IN  /\ state' = [state EXCEPT ![i] = r.state]
              /\ queue' = r.queue
              /\ pc' = IF r.outcome = "raised" THEN "crashed" ELSE pcAfter
              /\ cycle' = [outcome |-> r.outcome, state |-> i, market |-> market,
                           pool_time |-> pool_time,
                           action |-> r.action, price |-> r.price,
                           before |-> state[i]]
              /\ emitted' = IF r.outcome = "done"
                            THEN [emitted EXCEPT ![i] = Append(@, r.action)]
                            ELSE emitted

\* runApp: the direct calls executeJob(s, app, state_k, market=..., pool_time=...),
\* followed by s.run()
runApp ==
    /\ pc = "runApp"
    /\ next <= NumInstruments
    /\ Run(next, Markets[next], PoolTimes[next], queue,
           IF next = NumInstruments THEN "s.run" ELSE "runApp")
    /\ next' = next + 1
    /\ UNCHANGED <<csv, decision, ta, op, signal, orders, trade, chart, scan>>

\* s.run(): the earliest event is popped and its action called with its
\* arguments; market and pool_time take executeJob's defaults
s_run ==
    /\ pc = "s.run"
    /\ queue # <<>>
    /\ LET ev == Head(queue)
       IN  Run(ev.state, ev.market, ev.pool_time, Tail(queue), "s.run")
    /\ UNCHANGED <<csv, decision, next, ta, op, signal, orders, trade, chart, scan>>

NoCycle ==
    [outcome |-> "none", state |-> 1, market |-> "", pool_time |-> 0,
     action |-> "", price |-> 0, before |-> AppState]

(***************************************************************************)
(* tukang_kripto/technical_analysis.py: the indicator engine               *)
(*                                                                         *)
(* A DataFrame is [n, col]: its number of rows and its columns by name,    *)
(* each a sequence of n values. Numeric values are exact fractions [n, d]  *)
(* in lowest terms (close, volume, high and low are whole numbers); a      *)
(* missing value is NaN.                                                   *)
(***************************************************************************)
RECURSIVE Gcd(_, _)
Gcd(a, b) == IF b = 0 THEN a ELSE Gcd(b, a % b)

Abs(x) == IF x < 0 THEN -x ELSE x
Lcm(a, b) == (a \div Gcd(a, b)) * b

NaN == [n |-> 0, d |-> 0]
IsNaN(r) == r.d = 0

\* num/den in lowest terms, den > 0
Norm(num, den) ==
    LET g == Gcd(Abs(num), den)
    IN  [n |-> num \div g, d |-> den \div g]

Rat(x) == [n |-> x, d |-> 1]

\* a + k * b
RAddMul(a, k, b) ==
    IF IsNaN(a) \/ IsNaN(b) THEN NaN
    ELSE LET l == Lcm(a.d, b.d)
         IN  Norm(a.n * (l \div a.d) + k * b.n * (l \div b.d), l)

RAdd(a, b) == RAddMul(a, 1, b)
RSub(a, b) == RAddMul(a, -1, b)

\* a * k / m, m > 0
RScale(a, k, m) == IF IsNaN(a) THEN NaN ELSE Norm(a.n * k, a.d * m)

\* comparisons of pandas: any comparison with NaN is False
RCmp(a, b) ==
    LET l == Lcm(a.d, b.d)
    IN  a.n * (l \div a.d) - b.n * (l \div b.d)

RGt(a, b) == ~IsNaN(a) /\ ~IsNaN(b) /\ RCmp(a, b) > 0
RLt(a, b) == ~IsNaN(a) /\ ~IsNaN(b) /\ RCmp(a, b) < 0
RGe(a, b) == ~IsNaN(a) /\ ~IsNaN(b) /\ RCmp(a, b) >= 0
RLe(a, b) == ~IsNaN(a) /\ ~IsNaN(b) /\ RCmp(a, b) <= 0

\* Series.shift(1) of a numeric column: row 0 becomes NaN
\* (shift_ahead is Series.shift(-1): the last row becomes NaN)
shift_ahead(x) == [i \in 1..Len(x) |-> IF i = Len(x) THEN NaN ELSE x[i + 1]]

shift(x) == [i \in 1..Len(x) |-> IF i = 1 THEN NaN ELSE x[i - 1]]

\* Series.rolling(window, min_periods).mean(): pandas slides a running sum
\* and a count of observations over the rows
\* st is [sum, nobs, acc]: the running sum, the observations in the window
\* and the means of the rows done; the rows up to row hi are done
RECURSIVE roll_mean(_, _, _, _, _)
roll_mean(x, window, min_periods, hi, st) ==
    IF Len(st.acc) >= hi THEN st
    ELSE LET i == Len(st.acc) + 1
             s == IF i > window THEN st.sum + x[i] - x[i - window] ELSE st.sum + x[i]
             k == IF i > window THEN st.nobs ELSE st.nobs + 1
         IN  roll_mean(x, window, min_periods, hi,
                       [sum |-> s, nobs |-> k,
                        acc |-> Append(st.acc, IF k >= min_periods
                                               THEN Norm(s, k) ELSE NaN)])

\* the rows are done sixteen at a time
RECURSIVE roll_upto(_, _, _, _)
roll_upto(x, window, min_periods, hi) ==
    IF hi <= 0 THEN [sum |-> 0, nobs |-> 0, acc |-> <<>>]
    ELSE roll_mean(x, window, min_periods, hi,
                   roll_upto(x, window, min_periods, hi - 16))

rolling_mean(x, window, min_periods) ==
    roll_upto(x, window, min_periods, Len(x)).acc

\* Series.ewm(span=span, adjust=False).mean() of a column of fractions:
\* y[0] = x[0], y[t] = (1 - a) * y[t-1] + a * x[t] with a = 2 / (span + 1)
RECURSIVE ewm(_, _, _, _)
ewm(x, span, hi, acc) ==
    IF Len(acc) >= hi THEN acc
    ELSE LET i == Len(acc) + 1
             y == IF i = 1 THEN x[1]
                  ELSE RAdd(RScale(acc[i - 1], span - 1, span + 1),
                            RScale(x[i], 2, span + 1))
         IN  ewm(x, span, hi, Append(acc, y))

RECURSIVE ewm_upto(_, _, _)
ewm_upto(x, span, hi) ==
    IF hi <= 0 THEN <<>> ELSE ewm(x, span, hi, ewm_upto(x, span, hi - 16))

ewm_mean(x, span) == ewm_upto(x, span, Len(x))

RatColumn(x) == [i \in 1..Len(x) |-> Rat(x[i])]

HasColumn(df, name) == name \in DOMAIN df.col
SetColumn(df, name, values) ==
    [df EXCEPT !.col = (name :> values) @@ df.col]

Ok(df) == [raised |-> FALSE, df |-> df]
Raise(df) == [raised |-> TRUE, df |-> df]
\* the statements after a call run only when the call did not raise
Then(r, F(_)) == IF r.raised THEN r ELSE F(r.df)

\* the checks simple_moving_average, exponential_moving_average, add_sma and
\* add_ema all start with
period_raises(df, period) == period < 5 \/ period > 200 \/ df.n < period

\* rolling(period) with the default min_periods, the window length
simple_moving_average_full_window(df, period) ==
    rolling_mean(df.col["close"], period, period)

\* simple_moving_average: close.rolling(period, min_periods=1).mean()
simple_moving_average(df, period) ==
    rolling_mean(df.col["close"], period, 1)

\* exponential_moving_average: close.ewm(span=period, adjust=False).mean()
exponential_moving_average(df, period) ==
    ewm_mean(RatColumn(df.col["close"]), period)

\* the names "sma" + str(period), "ema" + str(period) of the periods used
SmaName(period) ==
    CASE period = 4 -> "sma4" [] period = 5 -> "sma5" [] period = 6 -> "sma6"
      [] period = 20 -> "sma20" [] period = 50 -> "sma50"
      [] period = 200 -> "sma200" [] period = 201 -> "sma201"

EmaName(period) ==
    CASE period = 4 -> "ema4" [] period = 5 -> "ema5" [] period = 12 -> "ema12"
      [] period = 13 -> "ema13" [] period = 20 -> "ema20" [] period = 26 -> "ema26"
      [] period = 201 -> "ema201"

\* add_sma that only refuses a frame shorter than the period
add_sma_unranged(df, period) ==
    IF df.n < period THEN Raise(df)
    ELSE Ok(SetColumn(df, SmaName(period), simple_moving_average(df, period)))

add_sma(df, period) ==
    IF period_raises(df, period) THEN Raise(df)
    ELSE Ok(SetColumn(df, SmaName(period), simple_moving_average(df, period)))

add_ema(df, period) ==
    IF period_raises(df, period) THEN Raise(df)
    ELSE Ok(SetColumn(df, EmaName(period), exponential_moving_average(df, period)))

\* the flag as the level comparison fast > slow
cross_above_level(fast, slow) ==
    [i \in 1..Len(fast) |-> RGt(fast[i], slow[i])]

\* (fast > slow) & (fast.shift(1) <= slow.shift(1))
cross_above(fast, slow) ==
    [i \in 1..Len(fast) |->
        RGt(fast[i], slow[i]) /\ RLe(shift(fast)[i], shift(slow)[i])]

\* (fast < slow) & (fast.shift(1) >= slow.shift(1))
cross_below(fast, slow) ==
    [i \in 1..Len(fast) |->
        RLt(fast[i], slow[i]) /\ RGe(shift(fast)[i], shift(slow)[i])]

\* `if not "ema5" or not "ema20" in self.df.columns`: not "ema5" is False,
\* so the two EMAs are added exactly when ema20 is absent; reading an
\* absent ema5 or ema20 afterwards raises KeyError
ensure_ema5_ema20(df) ==
    LET r == IF ~HasColumn(df, "ema20")
             THEN Then(add_ema(df, 5), LAMBDA d : add_ema(d, 20))
             ELSE Ok(df)
    IN  Then(r, LAMBDA d : IF HasColumn(d, "ema5") /\ HasColumn(d, "ema20")
                           THEN Ok(d) ELSE Raise(d))

ensure_sma5_sma20(df) ==
    Then(IF ~HasColumn(df, "sma5") THEN add_sma(df, 5) ELSE Ok(df),
         LAMBDA d : IF ~HasColumn(d, "sma20") THEN add_sma(d, 20) ELSE Ok(d))

add_golden_cross(df) ==
    Then(ensure_sma5_sma20(df), LAMBDA d1 :
        LET d2 == SetColumn(d1, "golden_cross",
                            cross_above(d1.col["sma5"], d1.col["sma20"]))
        IN  Then(ensure_ema5_ema20(d2), LAMBDA d3 :
                Ok(SetColumn(d3, "golden_cross_ema",
                             cross_above(d3.col["ema5"], d3.col["ema20"])))))

add_death_cross(df) ==
    Then(ensure_sma5_sma20(df), LAMBDA d1 :
        LET d2 == SetColumn(d1, "deathcross",
                            cross_below(d1.col["sma5"], d1.col["sma20"]))
        IN  Then(ensure_ema5_ema20(d2), LAMBDA d3 :
                Ok(SetColumn(d3, "death_cross_ema",
                             cross_below(d3.col["ema5"], d3.col["ema20"])))))

\* rel.ne(rel.shift()), then False wherever rel is False: the shifted
\* column holds NaN in row 0, which differs from every boolean
\* (crossover_unmasked leaves out the second statement)
crossover_unmasked(rel) ==
    [i \in 1..Len(rel) |-> i = 1 \/ rel[i] # rel[i - 1]]

crossover(rel) ==
    [i \in 1..Len(rel) |-> rel[i] /\ (i = 1 \/ rel[i] # rel[i - 1])]

gt_column(a, b) == [i \in 1..Len(a) |-> RGt(a[i], b[i])]
lt_column(a, b) == [i \in 1..Len(a) |-> RLt(a[i], b[i])]

\* the four columns <a>gt<b>, <a>gt<b>co, <a>lt<b>, <a>lt<b>co
buy_signals(df, a, b, gt, gtco, lt, ltco) ==
    LET d1 == SetColumn(df, gt, gt_column(df.col[a], df.col[b]))
        d2 == SetColumn(d1, gtco, crossover(d1.col[gt]))
        d3 == SetColumn(d2, lt, lt_column(df.col[a], df.col[b]))
    IN  SetColumn(d3, ltco, crossover(d3.col[lt]))

\* `if not "ema12" or not "ema26" in self.df.columns`: the two EMAs are
\* added exactly when ema26 is absent
add_ema_buy_signals(df) ==
    LET r == IF ~HasColumn(df, "ema26")
             THEN Then(add_ema(df, 12), LAMBDA d : add_ema(d, 26))
             ELSE Ok(df)
    IN  Then(r, LAMBDA d :
            IF HasColumn(d, "ema12") /\ HasColumn(d, "ema26")
            THEN Ok(buy_signals(d, "ema12", "ema26", "ema12gtema26",
                                "ema12gtema26co", "ema12ltema26", "ema12ltema26co"))
            ELSE Raise(d))

\* `if not "sma50" or not "sma200" in self.df.columns`
add_sma_buy_signals(df) ==
    LET r == IF ~HasColumn(df, "sma200")
             THEN Then(add_sma(df, 50), LAMBDA d : add_sma(d, 200))
             ELSE Ok(df)
    IN  Then(r, LAMBDA d :
            IF HasColumn(d, "sma50") /\ HasColumn(d, "sma200")
            THEN Ok(buy_signals(d, "sma50", "sma200", "sma50gtsma200",
                                "sma50gtsma200co", "sma50ltsma200", "sma50ltsma200co"))
            ELSE Raise(d))

\* moving_average_convergence_divergence and add_MACD: ema12 and ema26 are
\* read, never added
add_MACD(df) ==
    IF df.n < 26 \/ ~HasColumn(df, "ema12") \/ ~HasColumn(df, "ema26") THEN Raise(df)
    ELSE LET macd == [i \in 1..df.n |-> RSub(df.col["ema12"][i], df.col["ema26"][i])]
         IN  Ok(SetColumn(SetColumn(df, "macd", macd), "signal", ewm_mean(macd, 9)))

RECURSIVE cumsum_rows(_, _, _)
cumsum_rows(x, hi, acc) ==
    IF Len(acc) >= hi THEN acc
    ELSE LET i == Len(acc) + 1
         IN  cumsum_rows(x, hi, Append(acc, IF i = 1 THEN x[1] ELSE acc[i - 1] + x[i]))

RECURSIVE cumsum_upto(_, _)
cumsum_upto(x, hi) ==
    IF hi <= 0 THEN <<>> ELSE cumsum_rows(x, hi, cumsum_upto(x, hi - 16))

\* ndarray.cumsum()
cumsum(x) == cumsum_upto(x, Len(x))

\* the signed volume of a row; row 0 compares with NaN and takes the last
\* branch, df.iloc[0]["volume"]
\* (signed_volume_unsigned adds the volume on a falling close as well)
signed_volume_unsigned(df, i) ==
    IF i = 1 THEN df.col["volume"][1]
    ELSE IF df.col["close"][i] = df.col["close"][i - 1] THEN 0
    ELSE df.col["volume"][i]

signed_volume(df, i) ==
    IF i = 1 THEN df.col["volume"][1]
    ELSE IF df.col["close"][i] = df.col["close"][i - 1] THEN 0
    ELSE IF df.col["close"][i] > df.col["close"][i - 1] THEN df.col["volume"][i]
    ELSE -df.col["volume"][i]

Inf == [n |-> 1, d |-> 0]
NegInf == [n |-> -1, d |-> 0]

\* round(x, 2) of numpy: to the nearest hundredth, ties to even
Round2(x) ==
    IF x.d = 0 THEN x
    ELSE LET num == x.n * 100
             q == num \div x.d
             r == num % x.d
             k == IF 2 * r < x.d THEN q
                  ELSE IF 2 * r > x.d THEN q + 1
                  ELSE IF q % 2 = 0 THEN q ELSE q + 1
         IN  Norm(k, 100)

\* obv.pct_change() * 100, then fillna(0) and round(.., 2)
obv_pc(obv) ==
    [i \in 1..Len(obv) |->
        IF i = 1 THEN Rat(0)
        ELSE IF obv[i - 1] = 0
             THEN (IF obv[i] = 0 THEN Rat(0) ELSE IF obv[i] > 0 THEN Inf ELSE NegInf)
        ELSE IF obv[i - 1] > 0
             THEN Round2(Norm((obv[i] - obv[i - 1]) * 100, obv[i - 1]))
        ELSE Round2(Norm((obv[i - 1] - obv[i]) * 100, -obv[i - 1]))]

\* add_on_balance_volume that accumulates onto an obv column already there
add_on_balance_volume_accumulating(df) ==
    IF df.n = 0 THEN Raise(df)
    ELSE LET flow == cumsum([i \in 1..df.n |-> signed_volume(df, i)])
             obv == IF HasColumn(df, "obv")
                    THEN [i \in 1..df.n |-> df.col["obv"][i] + flow[i]]
                    ELSE flow
         IN  Ok(SetColumn(SetColumn(df, "obv", obv), "obv_pc", obv_pc(obv)))

\* add_on_balance_volume; df.iloc[0] raises IndexError on a frame without rows
add_on_balance_volume(df) ==
    IF df.n = 0 THEN Raise(df)
    ELSE LET obv == cumsum([i \in 1..df.n |-> signed_volume(df, i)])
         IN  Ok(SetColumn(SetColumn(df, "obv", obv), "obv_pc", obv_pc(obv)))

\* `if not "macd" or not "signal" in self.df.columns`
add_MACD_buy_signals(df) ==
    LET r == IF ~HasColumn(df, "signal")
             THEN Then(add_MACD(df), LAMBDA d : add_on_balance_volume(d))
             ELSE Ok(df)
    IN  Then(r, LAMBDA d :
            IF HasColumn(d, "macd") /\ HasColumn(d, "signal")
            THEN Ok(buy_signals(d, "macd", "signal", "macdgtsignal",
                                "macdgtsignalco", "macdltsignal", "macdltsignalco"))
            ELSE Raise(d))

\* add_elder_ray_index: `if "ema13" not in self.df`
add_elder_ray_index(df) ==
    Then(IF ~HasColumn(df, "ema13") THEN add_ema(df, 13) ELSE Ok(df), LAMBDA d :
        LET bull == [i \in 1..d.n |-> RSub(Rat(d.col["high"][i]), d.col["ema13"][i])]
            bear == [i \in 1..d.n |-> RSub(Rat(d.col["low"][i]), d.col["ema13"][i])]
            buy == [i \in 1..d.n |->
                       \/ RLt(bear[i], Rat(0)) /\ RGt(bear[i], shift(bear)[i])
                       \/ RGt(bull[i], shift(bull)[i])]
            sell == [i \in 1..d.n |->
                       \/ RGt(bull[i], Rat(0)) /\ RLt(bull[i], shift(bull)[i])
                       \/ RLt(bear[i], shift(bear)[i])]
        IN  Ok(SetColumn(SetColumn(SetColumn(SetColumn(d,
                "elder_ray_bull", bull), "elder_ray_bear", bear),
                "eri_buy", buy), "eri_sell", sell)))

\* add_CMA: close.expanding().mean()
add_CMA(df) == Ok(SetColumn(df, "cma", rolling_mean(df.col["close"], df.n + 1, 1)))

\* the columns whose values are not represented (standard deviations, RSI
\* and the sixteen candlestick patterns): df.extra tells which are present
AddExtra(df, name) == [df EXCEPT !.extra = @ \cup {name}]

add_fibonacci_bollinger_bands(df) == Ok(AddExtra(df, "fbb"))

\* add_relative_strength_index(14): calculate_relative_strength_index raises
\* IndexError on fewer rows than the interval
add_relative_strength_index(df, period) ==
    IF period < 7 \/ period > 21 \/ df.n < period THEN Raise(df)
    ELSE Ok(AddExtra(df, "rsi"))

\* add_all without its add_golden_cross() statement
add_all_no_golden_cross(df) ==
    Then(add_sma(df, 20), LAMBDA d1 :
    Then(add_sma(d1, 50), LAMBDA d2 :
    Then(add_ema(d2, 12), LAMBDA d3 :
    Then(add_ema(d3, 26), LAMBDA d4 :
    Then(add_CMA(d4), LAMBDA d5 :
    Then(add_death_cross(d5), LAMBDA d7 :
    Then(add_ema_buy_signals(d7), LAMBDA d8 :
    Then(add_fibonacci_bollinger_bands(d8), LAMBDA d9 :
    Then(add_relative_strength_index(d9, 14), LAMBDA d10 :
    Then(add_MACD(d10), LAMBDA d11 :
    Then(add_on_balance_volume(d11), LAMBDA d12 :
    Then(add_elder_ray_index(d12), LAMBDA d13 :
    Then(add_MACD_buy_signals(d13), LAMBDA d14 :
    Then(add_sma_buy_signals(d14), LAMBDA d15 :
    Then(add_sma_buy_signals(d15), LAMBDA d16 :
    Then(add_MACD_buy_signals(d16), LAMBDA d17 :
        Ok(AddExtra(d17, "candles"))))))))))))))))))

\* add_all, in the order of its statements
add_all(df) ==
    Then(add_sma(df, 20), LAMBDA d1 :
    Then(add_sma(d1, 50), LAMBDA d2 :
    Then(add_ema(d2, 12), LAMBDA d3 :
    Then(add_ema(d3, 26), LAMBDA d4 :
    Then(add_CMA(d4), LAMBDA d5 :
    Then(add_golden_cross(d5), LAMBDA d6 :
    Then(add_death_cross(d6), LAMBDA d7 :
    Then(add_ema_buy_signals(d7), LAMBDA d8 :
    Then(add_fibonacci_bollinger_bands(d8), LAMBDA d9 :
    Then(add_relative_strength_index(d9, 14), LAMBDA d10 :
    Then(add_MACD(d10), LAMBDA d11 :
    Then(add_on_balance_volume(d11), LAMBDA d12 :
    Then(add_elder_ray_index(d12), LAMBDA d13 :
    Then(add_MACD_buy_signals(d13), LAMBDA d14 :
    Then(add_sma_buy_signals(d14), LAMBDA d15 :
    Then(add_sma_buy_signals(d15), LAMBDA d16 :
    Then(add_MACD_buy_signals(d16), LAMBDA d17 :
        Ok(AddExtra(d17, "candles")))))))))))))))))))

\* DataFrame.tail(k) and DataFrame.head(k)
tail(df, k) ==
    LET m == IF df.n < k THEN df.n ELSE k
    IN  [df EXCEPT !.n = m,
                   !.col = [c \in DOMAIN df.col |-> SubSeq(df.col[c], df.n - m + 1, df.n)]]

head(df, k) ==
    LET m == IF df.n < k THEN df.n ELSE k
    IN  [df EXCEPT !.n = m,
                   !.col = [c \in DOMAIN df.col |-> SubSeq(df.col[c], 1, m)]]

\* getInterval that takes the oldest row
ta_getInterval_head(df) == IF df.n = 0 THEN df ELSE head(df, 1)

\* getInterval(df) of technical_analysis.py: df itself when it has no rows,
\* else df.tail(1)
ta_getInterval(df) == IF df.n = 0 THEN df ELSE tail(df, 1)

\* the columns getAction reads from df_last before it decides; a missing
\* one raises KeyError
GetActionColumns ==
    {"ema12ltema26", "ema12gtema26", "golden_cross", "golden_cross_ema",
     "death_cross_ema"}

getAction_reads(df_last) ==
    /\ GetActionColumns \subseteq DOMAIN df_last.col
    /\ "candles" \in df_last.extra

\* the columns TechnicalAnalysis.__init__ asks for, in order
BaseColumns ==
    <<"date", "market", "granularity", "low", "high", "open", "close", "volume">>

\* TechnicalAnalysis(data) accepting every integer or floating dtype of close
TechnicalAnalysis_any_width(data) ==
    IF ~data.frame \/ data.keys # BaseColumns
       \/ data.dtype \notin {"float64", "int64", "float32", "int32"}
    THEN Raise([n |-> 0, col |-> [c \in {} |-> <<>>], extra |-> {}])
    ELSE Ok([n |-> Len(data.close),
             col |-> [c \in {"low", "high", "open", "close", "volume"} |->
                        [i \in 1..Len(data.close) |->
                            CASE c = "low" -> data.close[i] - 1
                              [] c = "high" -> data.close[i] + 1
                              [] c = "volume" -> i
                              [] OTHER -> data.close[i]]],
             extra |-> {}])

\* TechnicalAnalysis(data): data is [frame, keys, dtype, close], whether it
\* is a DataFrame, list(data.keys()), the dtype of close and the close
\* prices. The candles handed in have low = close - 1, high = close + 1,
\* open = close and the volumes 1, 2, 3, ...; date, market and granularity
\* are not represented
TechnicalAnalysis(data) ==
    IF ~data.frame \/ data.keys # BaseColumns
       \/ "close" \notin {data.keys[k] : k \in 1..Len(data.keys)}
       \/ data.dtype \notin {"float64", "int64"}
    THEN Raise([n |-> 0, col |-> [c \in {} |-> <<>>], extra |-> {}])
    ELSE Ok([n |-> Len(data.close),
             col |-> [c \in {"low", "high", "open", "close", "volume"} |->
                        [i \in 1..Len(data.close) |->
                            CASE c = "low" -> data.close[i] - 1
                              [] c = "high" -> data.close[i] + 1
                              [] c = "volume" -> i
                              [] OTHER -> data.close[i]]],
             extra |-> {}])

\* a call of an add-indicator method: its name and, for add_sma and add_ema,
\* its period
invoke(df, call) ==
    CASE call.name = "add_sma" -> add_sma(df, call.period)
      [] call.name = "add_ema" -> add_ema(df, call.period)
      [] call.name = "add_golden_cross" -> add_golden_cross(df)
      [] call.name = "add_death_cross" -> add_death_cross(df)
      [] call.name = "add_ema_buy_signals" -> add_ema_buy_signals(df)
      [] call.name = "add_sma_buy_signals" -> add_sma_buy_signals(df)
      [] call.name = "add_MACD" -> add_MACD(df)
      [] call.name = "add_MACD_buy_signals" -> add_MACD_buy_signals(df)
      [] call.name = "add_on_balance_volume" -> add_on_balance_volume(df)
      [] call.name = "add_elder_ray_index" -> add_elder_ray_index(df)
      [] call.name = "add_all" -> add_all(df)

(***************************************************************************)
(* The indicator engine driven with candle series and calls                *)
(***************************************************************************)
Flat(k) == [i \in 1..k |-> 10]

\* every series of at most MaxShort candles closing at 1 or 2
ShortSeries == UNION {[1..k -> {1, 2}] : k \in 0..MaxShort}

\* close = 10 for bars 0..4, then rising by 1 per bar: 25 bars
Rising25 == [i \in 1..25 |-> IF i <= 5 THEN 10 ELSE 5 + i]

\* that series up to the last flat bar, and up to the first rising bar
RisingSeries == {SubSeq(Rising25, 1, k) : k \in {5, 6}}

\* twenty flat candles, then a tail that rises above or falls below
TailValues == {5, 11, 20}
CrossSeries == {Flat(20) \o t : t \in UNION {[1..k -> TailValues] : k \in 0..MaxTail}}

\* enough candles for MACD (26) and for SMA200 (200), flat or flat and
\* then moving
MidSeries == {Flat(26) \o t : t \in {<<>>, <<11>>, <<11, 5>>}}
LongSeries == {Flat(200) \o t : t \in {<<>>, <<11>>, <<11, 12>>}}

Series == ShortSeries \cup RisingSeries \cup CrossSeries \cup MidSeries \cup LongSeries

\* lists of column names a frame may come with
ColumnLists ==
    {BaseColumns,
     <<"date", "market", "granularity", "high", "low", "open", "close", "volume">>,
     <<"date", "market", "granularity", "low", "high", "open", "close">>,
     <<"date", "market", "granularity", "low", "high", "open", "volume">>,
     BaseColumns \o <<"sma20">>}

Dtypes == {"float64", "int64", "float32", "int32", "object"}

\* what TechnicalAnalysis is constructed from: well-formed frames of every
\* series, and one series under every column list and dtype
DataInputs ==
    [frame : {TRUE}, keys : {BaseColumns}, dtype : {"float64"}, close : Series]
    \cup
    [frame : BOOLEAN, keys : ColumnLists, dtype : Dtypes, close : {<<1, 2, 1, 2, 1>>}]

SmaPeriods == {4, 5, 6, 20, 50, 200, 201}
EmaPeriods == {4, 5, 12, 13, 20, 26, 201}
OtherCalls ==
    {"add_golden_cross", "add_death_cross", "add_ema_buy_signals",
     "add_sma_buy_signals", "add_MACD", "add_MACD_buy_signals",
     "add_on_balance_volume", "add_elder_ray_index", "add_all"}

Calls ==
    [name : {"add_sma"}, period : SmaPeriods]
    \cup [name : {"add_ema"}, period : EmaPeriods]
    \cup [name : OtherCalls, period : {0}]

NoFrame == [n |-> 0, col |-> [c \in {} |-> <<>>], extra |-> {}]
NoObject ==
    [status |-> "none", df |-> NoFrame, phase |-> "new",
     keys |-> <<>>, dtype |-> "", frame |-> FALSE]
NoCall ==
    [name |-> "", period |-> 0, raised |-> FALSE, rows |-> 0, had |-> {},
     unchanged |-> TRUE, again |-> FALSE]
NoSignal == [called |-> FALSE, df_last |-> NoFrame, raised |-> FALSE, action |-> ""]

\* ta = TechnicalAnalysis(data)
Construct ==
    /\ ta.status = "none"
    /\ \E data \in DataInputs :
          LET r == TechnicalAnalysis(data)
          IN  ta' = [status |-> IF r.raised THEN "raised" ELSE "ok",
                     df |-> r.df, phase |-> "new",
                     keys |-> data.keys, dtype |-> data.dtype, frame |-> data.frame]
    /\ UNCHANGED <<csv, decision, pc, next, state, queue, cycle, emitted, op, signal, orders, trade, chart, scan>>

\* one call of an add-indicator method on the object; an exception leaves
\* self.df as the statements before it made it. op keeps the call, the
\* number of rows and the columns it found, whether it left self.df as it
\* was, and whether it repeats the call before it
Apply(call, phase, again) ==
    LET r == invoke(ta.df, call)
    IN  /\ ta' = [ta EXCEPT !.df = r.df, !.phase = phase]
        /\ op' = [name |-> call.name, period |-> call.period,
                  raised |-> r.raised, rows |-> ta.df.n,
                  had |-> DOMAIN ta.df.col,
                  unchanged |-> (r.df = ta.df),
                  again |-> again]
        /\ UNCHANGED <<csv, decision, pc, next, state, queue, cycle, emitted, signal, orders, trade, chart, scan>>

\* the new object is prepared with a first call
Prepare ==
    /\ ta.status = "ok" /\ ta.phase = "new" /\ ~signal.called
    /\ \E call \in Calls : Apply(call, "prepared", FALSE)

\* an add-indicator method is called on the new or the prepared object
Call ==
    /\ ta.status = "ok" /\ ta.phase \in {"new", "prepared"} /\ ~signal.called
    /\ \E call \in Calls : Apply(call, "called", FALSE)

\* the same method is called once more, with the same period
Repeat ==
    /\ ta.status = "ok" /\ ta.phase = "called" /\ ~signal.called
    /\ Apply([name |-> op.name, period |-> op.period], "repeated", TRUE)

\* the last row is evaluated: df_last = getInterval(df) and, when it holds a
\* row, getAction(..., df_last, last_action = "", state) with no stop-loss
\* configured (the order of main.py's executeJob)
Evaluate ==
    /\ ta.status = "ok"
    /\ ~signal.called
    /\ LET df_last == ta_getInterval(ta.df)
       IN  signal' =
             IF df_last.n > 0
             THEN IF getAction_reads(df_last)
                  THEN [called |-> TRUE, df_last |-> df_last, raised |-> FALSE,
                        action |-> getAction(
                            [golden_cross_ema |-> df_last.col["golden_cross_ema"][1],
                             death_cross_ema |-> df_last.col["death_cross_ema"][1]],
                            "", [market_price |-> df_last.col["close"][1],
                                 loss_rate |-> 0], csv)]
                  ELSE [called |-> TRUE, df_last |-> df_last, raised |-> TRUE,
                        action |-> ""]
             ELSE [called |-> TRUE, df_last |-> df_last, raised |-> FALSE,
                   action |-> ""]
    /\ UNCHANGED <<csv, decision, pc, next, state, queue, cycle, emitted, ta, op, orders, trade, chart, scan>>

InitIndicators ==
    /\ ta = NoObject
    /\ op = NoCall
    /\ signal = NoSignal

(***************************************************************************)
(* tukang_kripto/indodax.py: orders on the exchange                        *)
(*                                                                         *)
(* What the exchange answers is an input of each call: the free balance,   *)
(* the order book and the response to create_order, each of which can also *)
(* fail (ccxt raises). Coin amounts are exact fractions, prices whole      *)
(* rupiah.                                                                 *)
(***************************************************************************)
Failed == "failed"

\* fetch_free_balance()[coin]: whole coins; NoBalance when the call fails
CoinBalances == 0..MaxCoin
NoBalance == None

\* fetch_order_book(symbol): four ask levels and two bid levels, best first;
\* NoBook when the call fails
OrderBooks ==
    {[asks |-> <<2, 3, 4, 5>>, bids |-> <<2, 1>>],
     [asks |-> <<3001, 3002, 3003, 3004>>, bids |-> <<3000, 2999>>]}
NoBook == [asks |-> <<>>, bids |-> <<>>]

\* create_order(...)["info"]["success"]
Responses == {"1", "0"}

\* the entries of config.json sell_coin reads
Configs == [sell_with_profit_only : BOOLEAN, minimum_profit_percentage : {0, 25}]

\* Indodax.get_last_buy_price: 0 where technical_analysis.get_last_buy_price
\* returns None
indodax_get_last_buy_price(file) ==
    LET last_buy == get_latest_csv_transaction(file, "buy")
    IN  IF last_buy.raised THEN [raised |-> TRUE, price |-> 0]
        ELSE IF last_buy.row # <<>>
             THEN [raised |-> FALSE, price |-> last_buy.row[1].price]
             ELSE [raised |-> FALSE, price |-> 0]

\* calculate_sell_price(target_sell_price)
calculate_sell_price(config, target_sell_price, file) ==
    LET last == indodax_get_last_buy_price(file)
        min_sell_profit ==
            PyRound(last.price * (100 + config.minimum_profit_percentage), 100)
    IN  IF last.raised THEN [raised |-> TRUE, price |-> 0]
        ELSE IF last.price # 0 /\ target_sell_price < min_sell_profit
             THEN [raised |-> FALSE, price |-> min_sell_profit]
             ELSE [raised |-> FALSE, price |-> target_sell_price]

\* get_best_ask_price(stop_loss)
get_best_ask_price(config, at_stop_loss, book, file) ==
    IF book = NoBook THEN [raised |-> TRUE, price |-> 0]
    ELSE IF at_stop_loss THEN [raised |-> FALSE, price |-> book.asks[1]]
    ELSE IF config.sell_with_profit_only
         THEN calculate_sell_price(config, book.asks[4], file)
         ELSE [raised |-> FALSE, price |-> book.asks[3]]

NoResult == [ok |-> FALSE, coin |-> Rat(0), price |-> 0, amount |-> Rat(0)]
Raised(placed) == [raised |-> TRUE, result |-> NoResult, placed |-> placed]

\* the steps of sell_coin after its balance check
sell_order(config, percentage, at_stop_loss, coin, book, response, file) ==
    LET coin_sell == Norm(percentage * coin, 100)
        sell_at == get_best_ask_price(config, at_stop_loss, book, file)
        buy_at == indodax_get_last_buy_price(file)
        order == [side |-> "sell", amount |-> coin_sell, price |-> sell_at.price]
    IN  IF sell_at.raised \/ buy_at.raised THEN Raised(<<>>)
        ELSE IF response = Failed THEN Raised(<<>>)
        ELSE [raised |-> FALSE,
              result |-> [ok |-> response = "1", coin |-> coin_sell,
                          price |-> sell_at.price,
                          amount |-> RScale(coin_sell, sell_at.price, 1)],
              placed |-> <<order>>]

\* sell_coin(percentage, stop_loss): the result tuple, whether the call
\* raised, and the orders it had created on the exchange; round(.., 8)
\* leaves the amounts used here, which have at most two decimals, as they
\* are, and math.isclose(coin, 0.0) holds for the balance 0 only.
\* sell_coin_unchecked is sell_coin without the check of the balance.
sell_coin_unchecked(config, percentage, at_stop_loss, coin, book, response, file) ==
    IF coin = NoBalance THEN Raised(<<>>)
    ELSE sell_order(config, percentage, at_stop_loss, coin, book, response, file)

sell_coin(config, percentage, at_stop_loss, coin, book, response, file) ==
    IF coin = NoBalance THEN Raised(<<>>)
    ELSE IF coin = 0
    THEN [raised |-> FALSE,
          result |-> [ok |-> FALSE, coin |-> Rat(-10), price |-> 0, amount |-> Rat(0)],
          placed |-> <<>>]
    ELSE sell_order(config, percentage, at_stop_loss, coin, book, response, file)

\* fetch_free_balance()["IDR"]: whole rupiah; NoBalance when the call fails
IdrBalances == {0, 19999, 20000, 30000}

\* the limit_budget argument of buy_coin
LimitBudgets == {0, 12000}

\* the first k decimals of rem / den, rem < den, and the remainder left
RECURSIVE decimals(_, _, _, _)
decimals(rem, den, k, acc) ==
    IF k = 0 THEN [digits |-> acc, rem |-> rem]
    ELSE decimals((rem * 10) % den, den, k - 1, acc * 10 + (rem * 10) \div den)

\* round(num / den, 8) for num >= 0, den > 0
Round8(num, den) ==
    LET f == decimals(num % den, den, 8, 0)
        up == \/ 2 * f.rem > den
              \/ 2 * f.rem = den /\ f.digits % 2 = 1
    IN  RAdd(Rat(num \div den),
             Norm(IF up THEN f.digits + 1 ELSE f.digits, 100000000))

\* get_best_bids_price(): the second bid, None when anything raised
get_best_bids_price(book) ==
    IF book = NoBook THEN None ELSE book.bids[2]

\* buy_coin(percentage, limit_budget): budget / target_price raises a
\* TypeError when get_best_bids_price() returned None
buy_coin(percentage, limit_budget, idr, book, response) ==
    IF idr = NoBalance THEN Raised(<<>>)
    ELSE LET budget0 == (percentage * idr) \div 100
             budget == IF 10000 < limit_budget /\ limit_budget < idr
                       THEN limit_budget ELSE budget0
             target_price == get_best_bids_price(book)
             coin_buy == Round8(budget, target_price)
             order == [side |-> "buy", amount |-> coin_buy, price |-> target_price]
         IN  IF budget0 < 10000
             THEN [raised |-> FALSE, result |-> NoResult, placed |-> <<>>]
             ELSE IF target_price = None THEN Raised(<<>>)
             ELSE IF response = Failed THEN Raised(<<>>)
             ELSE [raised |-> FALSE,
                   result |-> [ok |-> response = "1", coin |-> coin_buy,
                               price |-> target_price, amount |-> Rat(budget)],
                   placed |-> <<order>>]

\* whether buy_coin gets as far as asking for the order book
buy_coin_fetches(percentage, idr) ==
    idr # NoBalance /\ (percentage * idr) \div 100 >= 10000

NoTrade ==
    [called |-> FALSE, name |-> "", percentage |-> 0, stop_loss |-> FALSE,
     limit_budget |-> 0, balance |-> 0, book |-> NoBook, fetched |-> FALSE,
     raised |-> FALSE, result |-> NoResult, before |-> <<>>]

\* one call of Indodax.buy_coin, with what the exchange answers
BuyCoin ==
    /\ ~trade.called
    /\ \E percentage \in {50, 100}, limit_budget \in LimitBudgets,
          idr \in IdrBalances \cup {NoBalance},
          book \in OrderBooks \cup {NoBook},
          response \in Responses \cup {Failed} :
          LET r == buy_coin(percentage, limit_budget, idr, book, response)
          IN  /\ orders' = orders \o r.placed
              /\ trade' = [called |-> TRUE, name |-> "buy_coin",
                           percentage |-> percentage, stop_loss |-> FALSE,
                           limit_budget |-> limit_budget, balance |-> idr,
                           book |-> book,
                           fetched |-> buy_coin_fetches(percentage, idr),
                           raised |-> r.raised,
                           result |-> r.result, before |-> orders]
    /\ UNCHANGED <<csv, decision, pc, next, state, queue, cycle, emitted, ta, op, signal,
                   chart, scan>>

\* one call of Indodax.sell_coin, with what the exchange answers
SellCoin ==
    /\ ~trade.called
    /\ \E config \in Configs, percentage \in {50, 100}, at_stop_loss \in BOOLEAN,
          coin \in CoinBalances \cup {NoBalance},
          book \in OrderBooks \cup {NoBook},
          response \in Responses \cup {Failed} :
          LET r == sell_coin(config, percentage, at_stop_loss, coin, book, response, csv)
          IN  /\ orders' = orders \o r.placed
              /\ trade' = [called |-> TRUE, name |-> "sell_coin",
                           percentage |-> percentage,
                           stop_loss |-> at_stop_loss, limit_budget |-> 0,
                           balance |-> coin, book |-> book,
                           fetched |-> coin # NoBalance /\ coin # 0,
                           raised |-> r.raised,
                           result |-> r.result, before |-> orders]
    /\ UNCHANGED <<csv, decision, pc, next, state, queue, cycle, emitted, ta, op, signal,
                   chart, scan>>

InitIndodax ==
    /\ orders = <<>>
    /\ trade = NoTrade

(***************************************************************************)
(* Support and resistance levels: technical_analysis.py and, with the same *)
(* statements, signal/chartis.py                                           *)
(*                                                                         *)
(* A frame is [n, low, high]; an offset is the 0-based row number Python   *)
(* uses, so row offset i is element i + 1 of a column. A level is the pair *)
(* (offset, price) the code appends to self.levels.                        *)
(***************************************************************************)
Row(column, i) == column[i + 1]

RECURSIVE SumTo(_, _)
SumTo(x, k) == IF k = 0 THEN 0 ELSE SumTo(x, k - 1) + x[k]

\* mean(self.df["high"] - self.df["low"]): nan for a frame without rows
mean_range(df) ==
    IF df.n = 0 THEN NaN
    ELSE Norm(SumTo([k \in 1..df.n |-> df.high[k] - df.low[k]], df.n), df.n)

\* __is_support(df, i): all four comparisons are made before they are joined
\* (is_support_flat_shoulder has c3 as low[i + 1] <= low[i + 2])
is_support_flat_shoulder(df, i) ==
    LET c1 == Row(df.low, i) < Row(df.low, i - 1)
        c2 == Row(df.low, i) < Row(df.low, i + 1)
        c3 == Row(df.low, i + 1) <= Row(df.low, i + 2)
        c4 == Row(df.low, i - 1) < Row(df.low, i - 2)
    IN  c1 /\ c2 /\ c3 /\ c4

is_support(df, i) ==
    LET c1 == Row(df.low, i) < Row(df.low, i - 1)
        c2 == Row(df.low, i) < Row(df.low, i + 1)
        c3 == Row(df.low, i + 1) < Row(df.low, i + 2)
        c4 == Row(df.low, i - 1) < Row(df.low, i - 2)
    IN  c1 /\ c2 /\ c3 /\ c4

\* __is_resistance(df, i)
is_resistance(df, i) ==
    LET c1 == Row(df.high, i) > Row(df.high, i - 1)
        c2 == Row(df.high, i) > Row(df.high, i + 1)
        c3 == Row(df.high, i + 1) > Row(df.high, i + 2)
        c4 == Row(df.high, i - 1) > Row(df.high, i - 2)
    IN  c1 /\ c2 /\ c3 /\ c4

\* abs(l - x) < s
closer_than(l, x, s) == Abs(l - x) * s.d < s.n

\* __is_far_from_level that accepts every candidate
is_far_from_level_always(df, levels, l) == TRUE

\* __is_far_from_level(l): x is a retained level, the tuple (offset, price);
\* the numpy number l minus the tuple is the array (l - offset, l - price),
\* abs(..) < s is an array of two booleans, and np_sum adds up the booleans
\* of all the arrays
is_far_from_level(df, levels, l) ==
    LET s == mean_range(df)
    IN  \A k \in 1..Len(levels) :
            /\ ~closer_than(l, levels[k].offset, s)
            /\ ~closer_than(l, levels[k].price, s)

\* one pass of the loop `for i in range(2, self.df.shape[0] - 2)`: st is
\* [levels, examined, reads], the levels so far, the offsets examined with
\* what each was found to be, and the row offsets read
RECURSIVE scan_from(_, _, _)
scan_from(df, i, st) ==
    IF i >= df.n - 2 THEN st
    ELSE LET support == is_support(df, i)
             resistance == ~support /\ is_resistance(df, i)
             l == IF support THEN Row(df.low, i) ELSE Row(df.high, i)
             kind == IF support THEN "support"
                     ELSE IF resistance THEN "resistance" ELSE "none"
             keep == (support \/ resistance) /\ is_far_from_level(df, st.levels, l)
         IN  scan_from(df, i + 1,
                 [levels |-> IF keep
                             THEN Append(st.levels, [offset |-> i, price |-> l])
                             ELSE st.levels,
                  examined |-> Append(st.examined, [offset |-> i, kind |-> kind]),
                  reads |-> st.reads \cup (i - 2)..(i + 2)])

\* __calculate_support_resistance_levels(): appends to self.levels
calculate_support_resistance_levels(df, levels) ==
    scan_from(df, 2, [levels |-> levels, examined |-> <<>>, reads |-> {}])

\* get_support_resistance_levels(): self.levels is emptied first; the
\* Series returned holds the prices of self.levels under the index labels
\* of their offsets
get_support_resistance_levels(df, levels) ==
    calculate_support_resistance_levels(df, <<>>)

\* Chartis(data): `not data["close"].dtype not in [...]` is
\* `not (dtype not in [...])`, true exactly for float64 and int64
Chartis_raises(data) ==
    \/ ~data.frame
    \/ data.keys # BaseColumns
    \/ data.dtype \in {"float64", "int64"}

\* TechnicalAnalysis(data), the same checks as for the indicator engine
TechnicalAnalysis_raises(data) ==
    TechnicalAnalysis([frame |-> data.frame, keys |-> data.keys,
                       dtype |-> data.dtype, close |-> data.candles.low]).raised

Classes == {"TechnicalAnalysis", "Chartis"}

\* candles of equal range: lows over three prices, every high a fixed width
\* above its low, and the first bar with a spike of extra above that
LowPrices == {0, 1, 2}
Widths == {0, 1, 2}
Spikes == {0, 1, 15}
Candles ==
    {[low |-> low,
      high |-> [k \in 1..Len(low) |-> low[k] + w + IF k = 1 THEN e ELSE 0]] :
        low \in UNION {[1..k -> LowPrices] : k \in 0..MaxBars},
        w \in Widths, e \in Spikes}

\* a low at offset 2 and a high at offset 4
ZigZag == [low |-> <<2, 1, 0, 1, 2, 1, 0>>, high |-> <<4, 3, 2, 3, 4, 3, 2>>]

\* bars widening around offset 2: the lowest low and the highest high
Widening == [low |-> <<2, 1, 0, 1, 2>>, high |-> <<3, 4, 5, 4, 3>>]

\* what the objects are constructed from: well-formed frames of every candle
\* series, and one series under every class, column list and dtype
ChartInputs ==
    [class : {"TechnicalAnalysis"}, frame : {TRUE}, keys : {BaseColumns},
     dtype : {"int64"}, candles : Candles \cup {Widening}]
    \cup
    [class : Classes, frame : BOOLEAN, keys : ColumnLists, dtype : Dtypes,
     candles : {ZigZag}]

NoChart ==
    [status |-> "none", class |-> "", frame |-> FALSE, keys |-> <<>>,
     dtype |-> "", df |-> [n |-> 0, low |-> <<>>, high |-> <<>>], levels |-> <<>>]
NoScan ==
    [calls |-> 0, examined |-> <<>>, reads |-> {}, returned |-> <<>>,
     previous |-> <<>>]

\* chart = TechnicalAnalysis(data) or chart = Chartis(data)
ConstructChart ==
    /\ chart.status = "none"
    /\ \E data \in ChartInputs :
          LET raises == IF data.class = "Chartis" THEN Chartis_raises(data)
                        ELSE TechnicalAnalysis_raises(data)
          IN  chart' = [status |-> IF raises THEN "raised" ELSE "ok",
                        class |-> data.class, frame |-> data.frame,
                        keys |-> data.keys, dtype |-> data.dtype,
                        df |-> IF raises THEN NoChart.df
                               ELSE [n |-> Len(data.candles.low),
                                     low |-> data.candles.low,
                                     high |-> data.candles.high],
                        levels |-> <<>>]
    /\ UNCHANGED <<csv, decision, pc, next, state, queue, cycle, emitted, ta, op, signal,
                   orders, trade, scan>>

\* chart.get_support_resistance_levels()
Levels(calls) ==
    /\ chart.status = "ok" /\ scan.calls = calls
    /\ LET r == get_support_resistance_levels(chart.df, chart.levels)
       IN  /\ chart' = [chart EXCEPT !.levels = r.levels]
           /\ scan' = [calls |-> calls + 1, examined |-> r.examined,
                       reads |-> r.reads, returned |-> r.levels,
                       previous |-> scan.returned]
    /\ UNCHANGED <<csv, decision, pc, next, state, queue, cycle, emitted, ta, op, signal,
                   orders, trade>>

GetLevels == Levels(0)

\* the same call a second time on the same object
GetLevelsAgain == Levels(1)

InitLevels ==
    /\ chart = NoChart
    /\ scan = NoScan

(***************************************************************************)
(* Specifications                                                          *)
(***************************************************************************)
InitDecision ==
    /\ csv = [exists |-> FALSE, rows |-> <<>>]
    /\ decision = NoDecision

InitBot ==
    /\ pc = "runApp"
    /\ next = 1
    /\ state = [i \in Instruments |-> AppState]
    /\ queue = <<>>
    /\ cycle = NoCycle
    /\ emitted = [i \in Instruments |-> <<>>]

Init == InitDecision /\ InitBot /\ InitIndicators /\ InitIndodax /\ InitLevels

\* the bot of main.py
Next == runApp \/ s_run

Spec == Init /\ [][Next]_vars

\* the decision engine of technical_analysis.py with its transaction log
NextDecision == LogTransaction \/ Decide

SpecDecision == Init /\ [][NextDecision]_vars

\* the indicator engine of technical_analysis.py
NextIndicators == Construct \/ Prepare \/ Call \/ Repeat \/ Evaluate

SpecIndicators == Init /\ [][NextIndicators]_vars

\* the exchange calls of indodax.py, with the transaction log they read
NextIndodax == LogTransaction \/ SellCoin \/ BuyCoin

SpecIndodax == Init /\ [][NextIndodax]_vars

\* the support and resistance scan of a constructed object
NextLevels == ConstructChart \/ GetLevels \/ GetLevelsAgain

SpecLevels == Init /\ [][NextLevels]_vars

(***************************************************************************)
(* Properties of the decision engine (SpecDecision)                        *)
(***************************************************************************)
Returned == decision.called /\ decision.action \in Actions

BuyCheck == decision.golden_cross_ema /\ decision.last_action # "BUY"
SellCheck == decision.death_cross_ema /\ decision.last_action \notin {"", "SELL"}

\* C1: whenever stop_loss(state) is true, getAction returns SELL, whatever
\* the crossover flags and last_action are
C1_StopLossPreempts ==
    (decision.called /\ decision.stop.value) => decision.action = "SELL"

C1_Witness ==
    /\ decision.called /\ decision.stop.value
    /\ decision.golden_cross_ema /\ decision.last_action = "SELL"
    /\ decision.action = "SELL"

\* C2: when the stop-loss does not trigger, getAction returns BUY exactly
\* when golden_cross_ema is true and last_action is not BUY
C2_BuyIff ==
    (Returned /\ ~decision.stop.value) => (decision.action = "BUY" <=> BuyCheck)

C2_Witness ==
    /\ Returned /\ decision.stop.reads = 1 /\ ~decision.stop.value
    /\ decision.golden_cross_ema /\ decision.last_action = "SELL"
    /\ decision.action = "BUY"

\* C3: when neither the stop-loss nor the buy check fires, getAction returns
\* SELL exactly when death_cross_ema is true and last_action is neither ""
\* nor SELL, and WAIT otherwise; with last_action "" a SELL comes from the
\* stop-loss only
C3_SellIff ==
    /\ (Returned /\ ~decision.stop.value /\ ~BuyCheck) =>
          /\ decision.action = "SELL" <=> SellCheck
          /\ decision.action = "WAIT" <=> ~SellCheck
    /\ (Returned /\ decision.last_action = "" /\ decision.action = "SELL") =>
          decision.stop.value

C3_Witness ==
    /\ Returned /\ ~decision.stop.value
    /\ decision.death_cross_ema /\ decision.last_action = "BUY"
    /\ decision.action = "SELL"

\* the price of the last buy row of the log the call read
HasBuyRow(file) ==
    file.exists /\ \E k \in 1..Len(file.rows) : file.rows[k].type = "buy"

LastBuyRow(file) ==
    file.rows[CHOOSE k \in 1..Len(file.rows) :
                /\ file.rows[k].type = "buy"
                /\ \A j \in (k + 1)..Len(file.rows) : file.rows[j].type # "buy"]

StopLossArmed ==
    /\ decision.called
    /\ decision.loss_rate > 0 /\ decision.market_price > 0
    /\ HasBuyRow(decision.file)

NearestEven(k, num) ==
    LET d == IF 100 * k >= num THEN 100 * k - num ELSE num - 100 * k
    IN  /\ 2 * d <= 100
        /\ (2 * d = 100 => k % 2 = 0)

C7_StopLossDisabled ==
    (decision.called /\ (decision.loss_rate = 0 \/ decision.market_price = 0)) =>
        /\ decision.stop = [raised |-> FALSE, value |-> FALSE, reads |-> 0]
        /\ decision.action = IF BuyCheck THEN "BUY"
                             ELSE IF SellCheck THEN "SELL" ELSE "WAIT"

\* stop-loss switched off, a market price, and no log file to read
C7_Witness ==
    /\ decision.called /\ decision.loss_rate = 0 /\ decision.market_price > 0
    /\ ~decision.file.exists
    /\ decision.action = "BUY"

(***************************************************************************)
(* Properties of the polling bot (Spec)                                    *)
(***************************************************************************)
\* C4: for one instrument, two BUY actions are never emitted without a SELL
\* between them
C4_NoBuyAfterBuy ==
    \A i \in Instruments :
        \A j, k \in 1..Len(emitted[i]) :
            (j < k /\ emitted[i][j] = "BUY" /\ emitted[i][k] = "BUY") =>
                \E m \in (j + 1)..(k - 1) : emitted[i][m] = "SELL"

\* C5: after a completed evaluation cycle last_action is the action the
\* cycle emitted, after a BUY last_buy_price is the close of the evaluated
\* row, and a WAIT changes nothing else
C5_LastActionIsEmitted ==
    cycle.outcome = "done" =>
        LET st == state[cycle.state]
        IN  /\ st.last_action = cycle.action
            /\ cycle.action = "BUY" => st.last_buy_price = cycle.price
            /\ cycle.action = "WAIT" =>
                  /\ st.last_buy_price = cycle.before.last_buy_price
                  /\ st.last_buy_high = cycle.before.last_buy_high

Pending(q, i) == \E k \in 1..Len(q) : q[k].state = i

\* C9: after an evaluation cycle that raised or extracted no signal, the
\* process still polls and an evaluation of that instrument is pending
C9_FailureKeepsPolling ==
    cycle.outcome \in {"raised", "skipped"} =>
        (pc # "crashed" /\ Pending(queue, cycle.state))

\* C10: an evaluation of one instrument never removes the pending
\* evaluation of another instrument
C10_OthersStayPending ==
    [][\A i \in Instruments :
          (Pending(queue, i) /\ cycle'.state # i) => Pending(queue', i)]_vars

(***************************************************************************)
(* Properties of the indicator engine (SpecIndicators)                     *)
(***************************************************************************)
Close == ta.df.col["close"]

\* close is 10 up to some bar and rises by 1 per bar from the next one on;
\* FirstRising is that next bar (one past the end of an all-flat series)
FlatThenRising(x) ==
    \E k \in 1..(Len(x) + 1) :
        \A i \in 1..Len(x) : x[i] = IF i < k THEN 10 ELSE 10 + (i - k + 1)

FirstRising(x) ==
    CHOOSE k \in 1..(Len(x) + 1) :
        \A i \in 1..Len(x) : x[i] = IF i < k THEN 10 ELSE 10 + (i - k + 1)

\* C11 as stated: on the 25-bar series (close 10 for bars 0..4, then rising
\* by 1), add_all, getInterval and getAction return BUY when bar 5, the
\* first bar with EMA5 above EMA20, is the last row, and WAIT when an
\* earlier bar is the last row
C11_Scenario25Bars ==
    (signal.called /\ op.name = "add_all" /\ ta.status = "ok"
        /\ Close \in RisingSeries)
    => /\ ~signal.raised
       /\ signal.action = IF Len(Close) = 6 THEN "BUY" ELSE "WAIT"

\* C11, amended: add_all raises on fewer than 200 rows, so the 25-bar
\* series gets no action; once add_all has completed on a series that is
\* flat at 10 and then rises by 1 per bar, golden_cross_ema is true at the
\* first rising bar and nowhere else, and the evaluation returns BUY when
\* that bar is the last row and WAIT when an earlier bar is the last row
C11_PipelineNeeds200Bars ==
    /\ (op.name = "add_all" /\ op.rows < 200) => op.raised
    /\ (signal.called /\ op.name = "add_all" /\ ~op.raised /\ FlatThenRising(Close))
       => LET k == FirstRising(Close)
          IN  /\ ~signal.raised
              /\ \A i \in 1..ta.df.n : ta.df.col["golden_cross_ema"][i] <=> i = k
              /\ ta.df.n = k => signal.action = "BUY"
              /\ ta.df.n < k => signal.action = "WAIT"

C11_Witness ==
    /\ signal.called /\ op.name = "add_all" /\ ~op.raised
    /\ ta.df.n = 201 /\ Close[201] = 11 /\ Close[200] = 10
    /\ ta.df.col["golden_cross_ema"][201]
    /\ signal.action = "BUY"

Present(names) == ta.status = "ok" /\ names \subseteq DOMAIN ta.df.col
Column(name) == ta.df.col[name]

\* a flag column marks only bars where fast is above slow and was not above
\* it on the bar before, never the first bar, and no two bars of one run of
\* bars with fast above slow
GoldenOncePerRun(flag, fast, slow) ==
    Present({flag, fast, slow}) =>
        /\ \A i \in 1..ta.df.n :
              Column(flag)[i] =>
                  /\ i > 1
                  /\ RGt(Column(fast)[i], Column(slow)[i])
                  /\ RLe(Column(fast)[i - 1], Column(slow)[i - 1])
        /\ \A i, j \in 1..ta.df.n :
              (i < j /\ Column(flag)[i] /\ Column(flag)[j]) =>
                  \E m \in i..j : ~RGt(Column(fast)[m], Column(slow)[m])

\* the mirror: fast below slow, and not below it on the bar before
DeathOncePerRun(flag, fast, slow) ==
    Present({flag, fast, slow}) =>
        /\ \A i \in 1..ta.df.n :
              Column(flag)[i] =>
                  /\ i > 1
                  /\ RLt(Column(fast)[i], Column(slow)[i])
                  /\ RGe(Column(fast)[i - 1], Column(slow)[i - 1])
        /\ \A i, j \in 1..ta.df.n :
              (i < j /\ Column(flag)[i] /\ Column(flag)[j]) =>
                  \E m \in i..j : ~RLt(Column(fast)[m], Column(slow)[m])

\* C12: golden_cross (SMA5/SMA20) and golden_cross_ema (EMA5/EMA20) are true
\* on at most one bar of a maximal run of bars with the fast average above
\* the slow one, only where fast <= slow held on the previous bar, and never
\* on the first bar; deathcross and death_cross_ema mirror this
C12_CrossOncePerRun ==
    /\ GoldenOncePerRun("golden_cross", "sma5", "sma20")
    /\ GoldenOncePerRun("golden_cross_ema", "ema5", "ema20")
    /\ DeathOncePerRun("deathcross", "sma5", "sma20")
    /\ DeathOncePerRun("death_cross_ema", "ema5", "ema20")

\* a run of two bars with SMA5 and EMA5 above, flagged on its first bar only
C12_Witness ==
    /\ Present({"golden_cross", "golden_cross_ema", "sma5", "sma20", "ema5", "ema20"})
    /\ \E i \in 2..(ta.df.n - 1) :
          /\ Column("golden_cross")[i] /\ ~Column("golden_cross")[i + 1]
          /\ RGt(Column("sma5")[i + 1], Column("sma20")[i + 1])
          /\ Column("golden_cross_ema")[i] /\ ~Column("golden_cross_ema")[i + 1]
          /\ RGt(Column("ema5")[i + 1], Column("ema20")[i + 1])

\* the rows the longest average of a cross-dependent operation needs
RowsNeeded(name) ==
    CASE name \in {"add_golden_cross", "add_death_cross"} -> 20
      [] name \in {"add_ema_buy_signals", "add_MACD_buy_signals"} -> 26
      [] name = "add_sma_buy_signals" -> 200
      [] name = "add_elder_ray_index" -> 13

\* C13: add_golden_cross, add_death_cross, add_ema_buy_signals,
\* add_sma_buy_signals, add_MACD_buy_signals and add_elder_ray_index succeed
\* on a valid series that is long enough, whichever of their prerequisite
\* moving-average columns are already present
C13_PrerequisitesOnDemand ==
    (/\ op.name \in {"add_golden_cross", "add_death_cross", "add_ema_buy_signals",
                     "add_sma_buy_signals", "add_MACD_buy_signals",
                     "add_elder_ray_index"}
     /\ op.rows >= RowsNeeded(op.name))
    => ~op.raised

AddIndicatorNames ==
    {"add_sma", "add_ema", "add_golden_cross", "add_death_cross",
     "add_ema_buy_signals", "add_sma_buy_signals", "add_MACD",
     "add_MACD_buy_signals", "add_on_balance_volume"}

\* C14: an add-indicator operation called a second time right after the
\* first call leaves the columns and their values as the first call left them
C14_SecondCallChangesNothing ==
    (op.again /\ op.name \in AddIndicatorNames) => op.unchanged

\* add_on_balance_volume called twice in a row on candles whose close moves:
\* the second call finds obv and leaves the frame as it was
C14_Witness ==
    /\ op.again /\ op.name = "add_on_balance_volume" /\ ~op.raised
    /\ op.unchanged /\ op.rows > 1
    /\ "obv" \in op.had
    /\ Column("obv")[ta.df.n] # Column("obv")[1]

\* C15: getInterval returns the series itself, without raising, when it has
\* no rows, and otherwise exactly its last row; with no row extracted
\* getAction is not called and no action comes out
C15_LastRowOrNothing ==
    signal.called =>
        /\ ta.df.n = 0 =>
              /\ signal.df_last = ta.df
              /\ ~signal.raised
              /\ signal.action = ""
        /\ ta.df.n > 0 =>
              /\ signal.df_last.n = 1
              /\ signal.df_last.extra = ta.df.extra
              /\ DOMAIN signal.df_last.col = DOMAIN ta.df.col
              /\ \A c \in DOMAIN ta.df.col :
                    signal.df_last.col[c] = <<ta.df.col[c][ta.df.n]>>

\* the evaluation of a series without rows
C15_Witness ==
    /\ signal.called /\ ta.df.n = 0
    /\ signal.df_last.n = 0 /\ ~signal.raised /\ signal.action = ""

\* C16: add_sma and add_ema called with a period below 5, above 200 or
\* above the number of rows raise and leave the series as it was, without
\* the new column
C16_BadPeriodRaises ==
    (/\ op.name \in {"add_sma", "add_ema"}
     /\ (op.period < 5 \/ op.period > 200 \/ op.period > op.rows))
    => /\ op.raised
       /\ op.unchanged
       /\ DOMAIN ta.df.col = op.had

\* a period inside [5, 200] on a series shorter than it
C16_Witness ==
    /\ op.name = "add_ema" /\ op.period = 20 /\ op.rows \in 5..19
    /\ op.raised /\ op.unchanged /\ "ema20" \notin DOMAIN ta.df.col

Constructed == ta.status # "none"

\* C17 as stated: construction from a DataFrame succeeds exactly when the
\* columns are the eight base columns in order and close has an integer or
\* floating dtype
C17_AnyNumericClose ==
    (Constructed /\ ta.frame) =>
        (ta.status = "ok" <=>
            /\ ta.keys = BaseColumns
            /\ ta.dtype \in {"int64", "float64", "int32", "float32"})

\* C17, amended: construction succeeds exactly when the input is a DataFrame
\* whose columns are the eight base columns in order and whose close dtype
\* is int64 or float64; otherwise it raises, there is no object and no
\* indicator is computed
C17_Int64OrFloat64Close ==
    Constructed =>
        /\ ta.status = "ok" <=>
              /\ ta.frame
              /\ ta.keys = BaseColumns
              /\ ta.dtype \in {"int64", "float64"}
        /\ ta.status = "raised" =>
              /\ ta.df = NoFrame
              /\ op = NoCall
              /\ ~signal.called

\* the base columns with low and high in the other order
C17_Witness ==
    /\ ta.status = "raised" /\ ta.frame /\ ta.dtype = "float64"
    /\ Len(ta.keys) = 8 /\ ta.keys # BaseColumns
    /\ {ta.keys[k] : k \in 1..8} = {BaseColumns[k] : k \in 1..8}

(***************************************************************************)
(* Properties of the transaction log (SpecDecision)                        *)
(***************************************************************************)
\* the rows of the log written with the type t, by their position
RowsOfType(file, t) == {k \in 1..Len(file.rows) : file.rows[k].type = t}

MaxOf(K) == CHOOSE k \in K : \A j \in K : j <= k

RECURSIVE RangeSum(_, _, _)
RangeSum(x, lo, hi) ==
    IF lo > hi THEN 0
    ELSE IF lo = hi THEN x[lo]
    ELSE LET mid == (lo + hi) \div 2
         IN  RangeSum(x, lo, mid) + RangeSum(x, mid + 1, hi)

\* v is the mean of x[lo..hi], a defined value
IsMeanOf(v, x, lo, hi) ==
    /\ v.d > 0
    /\ v.n * (hi - lo + 1) = RangeSum(x, lo, hi) * v.d

\* the SMA column of period p has a value in every row: the mean of all the
\* rows so far in the first p rows, the mean of the trailing p rows after
SmaIsWindowMean(p) ==
    Present({SmaName(p)}) =>
        /\ Len(Column(SmaName(p))) = Len(Close)
        /\ \A i \in 1..ta.df.n :
              IsMeanOf(Column(SmaName(p))[i], Close,
                       IF i < p THEN 1 ELSE i - p + 1, i)

\* C19: for a period p in [5, 200] and a series of at least p rows, the SMA
\* column is as long as the input; its first p rows hold the mean of close
\* over all rows up to that row, never a missing value, and the rows from
\* p - 1 on the mean of the trailing p rows
C19_SmaPartialWindows ==
    \A p \in SmaPeriods \ {4, 201} : SmaIsWindowMean(p)

\* SMA5 of the closes 1, 2, 2, 2, 2, 2
C19_Witness ==
    /\ Present({"sma5"}) /\ ta.df.n = 6
    /\ Close = <<1, 2, 2, 2, 2, 2>>
    /\ Column("sma5")[2] = [n |-> 3, d |-> 2]
    /\ Column("sma5")[5] = [n |-> 9, d |-> 5]
    /\ Column("sma5")[6] = [n |-> 2, d |-> 1]

\* the last call of sell_coin found a free coin balance of zero
SoldNothingHeld == trade.called /\ trade.name = "sell_coin" /\ trade.balance = 0

\* C20: a sell attempted with a coin balance of zero returns the failure
\* result (False, -10, 0, 0) without raising, whatever the order book, the
\* transaction log and the exchange would have answered, and the exchange
\* has received no order from it
C20_SellOfNothingFails ==
    SoldNothingHeld =>
        /\ ~trade.raised
        /\ trade.result = [ok |-> FALSE, coin |-> Rat(-10), price |-> 0,
                           amount |-> Rat(0)]
        /\ orders = trade.before

\* a sell of nothing at a moment when the order book cannot be fetched and
\* the transaction log does not exist, so every later step would raise
C20_Witness ==
    /\ SoldNothingHeld
    /\ trade.book = NoBook
    /\ ~csv.exists
    /\ ~trade.raised /\ ~trade.result.ok
    /\ orders = <<>>

\* the last call of buy_coin asked for the order book and the fetch failed
BoughtWithoutBook ==
    trade.called /\ trade.name = "buy_coin" /\ trade.fetched /\ trade.book = NoBook

\* C21: when fetching the order book fails while buy_coin is executing, no
\* buy order is created and no exception leaves buy_coin
C21_BookFailureContained ==
    BoughtWithoutBook => ~trade.raised /\ orders = trade.before

\* the frame the constructor builds from the first k closes of the frame
Shorter(k) ==
    TechnicalAnalysis([frame |-> TRUE, keys |-> BaseColumns, dtype |-> "int64",
                       close |-> SubSeq(Close, 1, k)]).df

\* the moving-average and flag columns, each as the code derives it from
\* the closes of frame d
Sma(d, p) == simple_moving_average(d, p)
Ema(d, p) == exponential_moving_average(d, p)
AverageAndFlagNames ==
    {"sma5", "sma6", "sma20", "sma50", "sma200",
     "ema5", "ema12", "ema13", "ema20", "ema26",
     "golden_cross", "deathcross", "golden_cross_ema", "death_cross_ema",
     "ema12gtema26", "ema12gtema26co", "ema12ltema26", "ema12ltema26co",
     "sma50gtsma200", "sma50gtsma200co", "sma50ltsma200", "sma50ltsma200co",
     "macdgtsignal", "macdgtsignalco", "macdltsignal", "macdltsignalco"}

\* the columns by name; an average that several flags read is derived once
Derived(d) ==
    LET sma5 == Sma(d, 5)
        sma20 == Sma(d, 20)
        sma50 == Sma(d, 50)
        sma200 == Sma(d, 200)
        ema5 == Ema(d, 5)
        ema12 == Ema(d, 12)
        ema20 == Ema(d, 20)
        ema26 == Ema(d, 26)
        macd == [i \in 1..d.n |-> RSub(ema12[i], ema26[i])]
        signal_line == ewm_mean(macd, 9)
    IN  [name \in AverageAndFlagNames |->
          CASE name = "sma5" -> sma5 [] name = "sma6" -> Sma(d, 6)
            [] name = "sma20" -> sma20 [] name = "sma50" -> sma50
            [] name = "sma200" -> sma200
            [] name = "ema5" -> ema5 [] name = "ema12" -> ema12
            [] name = "ema13" -> Ema(d, 13) [] name = "ema20" -> ema20
            [] name = "ema26" -> ema26
            [] name = "golden_cross" -> cross_above(sma5, sma20)
            [] name = "deathcross" -> cross_below(sma5, sma20)
            [] name = "golden_cross_ema" -> cross_above(ema5, ema20)
            [] name = "death_cross_ema" -> cross_below(ema5, ema20)
            [] name = "ema12gtema26" -> gt_column(ema12, ema26)
            [] name = "ema12gtema26co" -> crossover(gt_column(ema12, ema26))
            [] name = "ema12ltema26" -> lt_column(ema12, ema26)
            [] name = "ema12ltema26co" -> crossover(lt_column(ema12, ema26))
            [] name = "sma50gtsma200" -> gt_column(sma50, sma200)
            [] name = "sma50gtsma200co" -> crossover(gt_column(sma50, sma200))
            [] name = "sma50ltsma200" -> lt_column(sma50, sma200)
            [] name = "sma50ltsma200co" -> crossover(lt_column(sma50, sma200))
            [] name = "macdgtsignal" -> gt_column(macd, signal_line)
            [] name = "macdgtsignalco" -> crossover(gt_column(macd, signal_line))
            [] name = "macdltsignal" -> lt_column(macd, signal_line)
            [] name = "macdltsignalco" ->
                  crossover(lt_column(macd, signal_line))]

\* the series of which the frame is an extension by up to MaxTail rows
ShorterLengths == {k \in 1..(ta.df.n - 1) : ta.df.n - k <= MaxTail}

\* the columns the last call has added to the frame; Evaluate leaves the
\* frame as it is, so the columns are compared before it
Added == IF signal.called THEN {} ELSE DOMAIN ta.df.col \ op.had

\* C22: a moving-average or flag column a call adds to the frame holds, in
\* each row i, the value the same column holds in row i when it is derived
\* from only the first k >= i rows of the series: the later rows do not
\* change it
C22_NoLookAhead ==
    Present({}) =>
        \A k \in ShorterLengths :
            LET derived == Derived(Shorter(k))
            IN  \A name \in AverageAndFlagNames \cap Added :
                    LET column == derived[name]
                    IN  \A i \in 1..k : column[i] = Column(name)[i]

\* the golden cross on bar 21 of 22 stays although the close falls back on
\* bar 22
C22_Witness ==
    /\ Present({"golden_cross_ema", "ema5", "ema20"})
    /\ "golden_cross_ema" \in Added
    /\ ta.df.n = 22 /\ Close[20] = 10 /\ Close[21] = 11 /\ Close[22] = 5
    /\ Column("golden_cross_ema")[21]
    /\ ~Column("golden_cross_ema")[22]
    /\ RLt(Column("ema5")[22], Column("ema20")[22])

\* column co marks exactly the bars, after the first, on which the relation
\* between columns a and b holds and did not hold on the bar before
IsTransitionOf(co, a, b, Holds(_, _)) ==
    Present({co}) =>
        \A i \in 1..ta.df.n :
            Column(co)[i] <=>
                /\ i > 1
                /\ Holds(Column(a)[i], Column(b)[i])
                /\ ~Holds(Column(a)[i - 1], Column(b)[i - 1])

\* C23: ema12gtema26co, ema12ltema26co, sma50gtsma200co, sma50ltsma200co,
\* macdgtsignalco and macdltsignalco are true on bar i exactly when the
\* relation (ema12 > ema26, ema12 < ema26, ...) holds on bar i and did not
\* hold on bar i - 1; they are false where the relation is false and false
\* on the first bar
C23_TransitionFlags ==
    /\ IsTransitionOf("ema12gtema26co", "ema12", "ema26", RGt)
    /\ IsTransitionOf("ema12ltema26co", "ema12", "ema26", RLt)
    /\ IsTransitionOf("sma50gtsma200co", "sma50", "sma200", RGt)
    /\ IsTransitionOf("sma50ltsma200co", "sma50", "sma200", RLt)
    /\ IsTransitionOf("macdgtsignalco", "macd", "signal", RGt)
    /\ IsTransitionOf("macdltsignalco", "macd", "signal", RLt)

\* after 200 flat bars the close rises on bars 201 and 202: ema12 is above
\* ema26 on both and the flag marks bar 201 only
C23_Witness ==
    /\ Present({"ema12gtema26co", "ema12gtema26", "macdgtsignalco"})
    /\ ta.df.n = 202
    /\ Column("ema12gtema26co")[201] /\ Column("macdgtsignalco")[201]
    /\ Column("ema12gtema26")[202] /\ ~Column("ema12gtema26co")[202]
    /\ ~Column("ema12gtema26")[1]

\* C26: on every bar after the first, obv is the obv of the bar before plus
\* the volume of the bar when the close rose, minus it when the close fell,
\* and unchanged when the close stayed
C26_ObvRecurrence ==
    Present({"obv"}) =>
        \A i \in 2..ta.df.n :
            Column("obv")[i] =
                Column("obv")[i - 1]
                + (CASE Close[i] > Close[i - 1] -> Column("volume")[i]
                     [] Close[i] < Close[i - 1] -> -Column("volume")[i]
                     [] OTHER -> 0)

\* a rise, a fall and a tie: the volumes 1, 2, 3, 4 give obv 1, 3, 0, 0
C26_Witness ==
    /\ Present({"obv"})
    /\ Close = <<1, 2, 1, 1>>
    /\ Column("volume") = <<1, 2, 3, 4>>
    /\ Column("obv") = <<1, 3, 0, 0>>

(***************************************************************************)
(* Properties of the support and resistance scan (SpecLevels)              *)
(***************************************************************************)
Scanned == chart.status = "ok" /\ scan.calls > 0

\* the prices p and q are at least the mean bar range apart
FarApart(p, q) == ~closer_than(p, q, mean_range(chart.df))

\* C24: after get_support_resistance_levels every retained level is at
\* least the mean (high - low) range away in price from every level retained
\* before it, and a second call on the same object returns the same levels
C24_LevelsFarApartAndReset ==
    Scanned =>
        /\ \A j, k \in 1..Len(chart.levels) :
              j < k => FarApart(chart.levels[k].price, chart.levels[j].price)
        /\ scan.returned = chart.levels
        /\ scan.calls = 2 => scan.returned = scan.previous

\* two levels retained, a support and a resistance, by both calls
C24_Witness ==
    /\ Scanned /\ scan.calls = 2
    /\ Len(chart.levels) = 2
    /\ chart.levels[1].price # chart.levels[2].price
    /\ mean_range(chart.df).n > 0

\* the lows fall strictly over the two bars into offset i and rise strictly
\* over the two bars after it; the highs do the opposite
LocalMinimum(x, i) ==
    x[i - 1] > x[i] /\ x[i] > x[i + 1] /\ x[i + 1] < x[i + 2] /\ x[i + 2] < x[i + 3]
LocalMaximum(x, i) ==
    x[i - 1] < x[i] /\ x[i] < x[i + 1] /\ x[i + 1] > x[i + 2] /\ x[i + 2] > x[i + 3]

\* C25: the scan examines exactly the offsets 2 <= i < n - 2, in order,
\* and reads no row outside 0..n-1; offset i is a support point iff the low
\* at i is a strict minimum of the five lows around it falling into it and
\* rising out of it, and otherwise a resistance point iff the highs mirror
\* that
C25_ScanWindow ==
    Scanned =>
        /\ Len(scan.examined) = IF chart.df.n > 4 THEN chart.df.n - 4 ELSE 0
        /\ \A k \in 1..Len(scan.examined) :
              LET i == scan.examined[k].offset
                  kind == scan.examined[k].kind
              IN  /\ i = k + 1
                  /\ 2 <= i /\ i < chart.df.n - 2
                  /\ kind = "support" <=> LocalMinimum(chart.df.low, i)
                  /\ kind = "resistance" <=>
                        ~LocalMinimum(chart.df.low, i) /\ LocalMaximum(chart.df.high, i)
        /\ scan.reads \subseteq 0..(chart.df.n - 1)

\* seven bars: a support at offset 2, nothing at 3, a resistance at 4, and
\* every row read
C25_Witness ==
    /\ Scanned /\ chart.df.n = 7
    /\ scan.examined = <<[offset |-> 2, kind |-> "support"],
                         [offset |-> 3, kind |-> "none"],
                         [offset |-> 4, kind |-> "resistance"]>>
    /\ scan.reads = 0..6

\* the price of the candidate at an examined offset
CandidatePrice(e) ==
    IF e.kind = "support" THEN Row(chart.df.low, e.offset)
    ELSE Row(chart.df.high, e.offset)

\* the levels retained at offsets before offset i
RetainedBefore(i) ==
    {k \in 1..Len(chart.levels) : chart.levels[k].offset < i}

Retained(i) == \E k \in 1..Len(chart.levels) : chart.levels[k].offset = i

\* C27: a support or resistance candidate is retained whenever its price is
\* at least the mean (high - low) range away from the price of every level
\* retained before it, whatever the offsets of those levels are
C27_RetainedByPriceOnly ==
    Scanned =>
        \A n \in 1..Len(scan.examined) :
            LET e == scan.examined[n]
            IN  (/\ e.kind # "none"
                 /\ \A k \in RetainedBefore(e.offset) :
                       FarApart(CandidatePrice(e), chart.levels[k].price))
                => Retained(e.offset)

\* Chartis(data) was called with a DataFrame of exactly the eight columns
ChartisOfBaseColumns ==
    /\ chart.status # "none" /\ chart.class = "Chartis"
    /\ chart.frame /\ chart.keys = BaseColumns

\* C30: Chartis accepts a frame of exactly the eight columns whose close is
\* int64 or float64, and raises when close is not numeric
C30_ChartisNumericClose ==
    ChartisOfBaseColumns =>
        /\ chart.dtype \in {"int64", "float64"} => chart.status = "ok"
        /\ chart.dtype = "object" => chart.status = "raised"

(***************************************************************************)
(* Properties of the polling bot, continued (Spec)                         *)
(***************************************************************************)
\* C28: every executeJob call, first or rescheduled, evaluates the market
\* and uses the polling interval runApp gave for its AppState
C28_SameMarketEveryCycle ==
    cycle.outcome # "none" =>
        /\ cycle.market = Markets[cycle.state]
        /\ cycle.pool_time = PoolTimes[cycle.state]

(***************************************************************************)
(* Properties of the decision engine, continued (SpecDecision)             *)
(***************************************************************************)
\* stop-loss configured, a market price, and a log without a buy row
NoBuyRecorded ==
    /\ decision.called
    /\ decision.loss_rate > 0 /\ decision.market_price > 0
    /\ decision.file.exists /\ ~HasBuyRow(decision.file)

\* C29: with maximum_loss_percentage > 0, market_price > 0 and a log that
\* holds no buy row, stop_loss returns false without raising, and getAction
\* returns the action the crossover flags and last_action decide
C29_NoBuyRowNoStopLoss ==
    NoBuyRecorded =>
        /\ ~decision.stop.raised
        /\ ~decision.stop.value
        /\ decision.action = IF BuyCheck THEN "BUY"
                             ELSE IF SellCheck THEN "SELL" ELSE "WAIT"

====
